---- MODULE Spec2Model ----
(***************************************************************************)
(* Value Domain provider of lexicon (src/lexicon/providers/valuedomain.py). *)
(*                                                                         *)
(* The vendor keeps a whole DNS zone as one text blob, one record per line  *)
(* ("type name content").  Every operation of the provider fetches the      *)
(* blob, parses it into tuples, works on the tuples in memory and, for a    *)
(* change, writes the whole blob back.                                      *)
(*                                                                         *)
(* Strings are sequences of one-character strings, so that splitting,       *)
(* joining, lower-casing and concatenation are computed and not assumed.    *)
(* Python's None is the value None below; indices are Python's (0-based,    *)
(* -1 for "not found").                                                     *)
(***************************************************************************)
EXTENDS Integers, Sequences, FiniteSets

VARIABLES
    records,    \* the remote zone: payload["results"]["records"], a text blob
    call,       \* the last operation called and its arguments
    fetched,    \* the tuples the last operation parsed from the blob
    stored,     \* the tuples the last operation wrote back, or NoStore
    ret,        \* what the last operation returned, or the exception it raised
    index,      \* what _find_resource_record_set returned to the last operation
    requests,   \* the HTTP requests the last operation issued, in order
    listed,     \* the records the last _list_records call returned
    pc,         \* two clients: where each one is in its _create_record call
    pending,    \* two clients: the tuples each one is about to write back
    log,        \* two clients: the requests issued so far, <<method, client>>
    arg,        \* pure functions: the input
    out         \* pure functions: the result, or Idle before the call

vars == <<records, call, fetched, stored, ret, index, requests, listed,
          pc, pending, log, arg, out>>

----------------------------------------------------------------------------
\* Bounds of the model.

\* The longest zone (in lines) an operation may grow the zone to.
MaxRecords == 2
\* The longest content of a triplet given to the codec.
MaxContentLen == 3
\* The longest triplet sequence given to the codec.
MaxTriplets == 2

----------------------------------------------------------------------------
\* Strings.

None == <<"None">>
NoStore == <<"NoStore">>
Idle == <<"Idle">>

\* Python's truth value of an optional string: None and "" are false.
Truthy(x) == x # None /\ x # <<>>

SP == " "
TAB == "\t"
NL == "\n"
CR == "\r"

\* The characters str.splitlines() ends a line at (those of the model's alphabet).
LineBreaks == {NL, CR}
\* The characters the pattern \s matches (those of the model's alphabet).
Whitespace == {SP, TAB, NL, CR}

LowerChar(c) ==
    CASE c = "A" -> "a" [] c = "C" -> "c" [] c = "N" -> "n"
      [] c = "M" -> "m" [] c = "E" -> "e" [] OTHER -> c

UpperChar(c) ==
    CASE c = "a" -> "A" [] c = "c" -> "C" [] c = "n" -> "N"
      [] c = "m" -> "M" [] c = "e" -> "E" [] OTHER -> c

\* str.lower() and str.upper()
Lower(s) == [i \in 1..Len(s) |-> LowerChar(s[i])]
Upper(s) == [i \in 1..Len(s) |-> UpperChar(s[i])]

\* str.endswith(suffix)
EndsWith(s, suffix) ==
    /\ Len(suffix) <= Len(s)
    /\ SubSeq(s, Len(s) - Len(suffix) + 1, Len(s)) = suffix

\* str.rstrip(".")
RECURSIVE RStripDot(_)
RStripDot(s) ==
    IF s # <<>> /\ s[Len(s)] = "." THEN RStripDot(SubSeq(s, 1, Len(s) - 1)) ELSE s

\* Whether sub occurs in s.
Contains(s, sub) ==
    \E i \in 1..(Len(s) - Len(sub) + 1) : SubSeq(s, i, i + Len(sub) - 1) = sub

\* sep.join(parts)
RECURSIVE Join(_, _)
Join(sep, parts) ==
    IF parts = <<>> THEN <<>>
    ELSE IF Len(parts) = 1 THEN parts[1]
    ELSE parts[1] \o sep \o Join(sep, Tail(parts))

\* str.splitlines(): the lines of s, without their line breaks; "\r\n" is one
\* break, and a break at the very end opens no further line.
RECURSIVE SplitLinesFrom(_, _, _)
SplitLinesFrom(s, i, cur) ==
    IF i > Len(s) THEN (IF cur = <<>> THEN <<>> ELSE <<cur>>)
    ELSE IF s[i] \in LineBreaks
         THEN LET j == IF s[i] = CR /\ i < Len(s) /\ s[i + 1] = NL
                       THEN i + 2 ELSE i + 1
              IN  <<cur>> \o SplitLinesFrom(s, j, <<>>)
         ELSE SplitLinesFrom(s, i + 1, Append(cur, s[i]))

SplitLines(s) == SplitLinesFrom(s, 1, <<>>)

\* The first position >= i of s holding whitespace (or not), Len(s) + 1 if none.
RECURSIVE Scan(_, _, _)
Scan(s, i, wantSpace) ==
    IF i > Len(s) THEN i
    ELSE IF (s[i] \in Whitespace) = wantSpace THEN i
    ELSE Scan(s, i + 1, wantSpace)

\* re.split(r'\s+', s, maxsplit): cut s at its first maxsplit runs of
\* whitespace; what follows the last cut is kept whole.
RECURSIVE ReSplit(_, _)
ReSplit(s, maxsplit) ==
    LET i == Scan(s, 1, TRUE)
        j == Scan(s, i, FALSE)
    IN  IF maxsplit = 0 \/ i > Len(s) THEN <<s>>
        ELSE <<SubSeq(s, 1, i - 1)>> \o ReSplit(SubSeq(s, j, Len(s)), maxsplit - 1)

----------------------------------------------------------------------------
\* The provider's configuration and the framework's name helpers.

\* self.domain
domain == <<"d", ".", "c">>

\* self.ttl
ttl == 3600

\* BaseProvider._full_name
base_full_name(record_name) ==
    LET n == RStripDot(record_name)
    IN  IF EndsWith(n, domain) THEN n ELSE n \o <<".">> \o domain

\* BaseProvider._relative_name
base_relative_name(record_name) ==
    LET n == RStripDot(record_name)
    IN  IF EndsWith(n, domain)
        THEN RStripDot(SubSeq(n, 1, Len(n) - Len(domain)))
        ELSE n

\* Provider._full_name
full_name(record_name) ==
    base_full_name(IF record_name = <<"@">> THEN domain ELSE record_name)

\* Provider._relative_name
relative_name(record_name) ==
    LET name == base_relative_name(record_name)
    IN  IF name = <<>> THEN <<"@">> ELSE name

\* Provider._bind_format_target
bind_format_target(rtype, target) ==
    IF rtype = <<"C", "N", "A", "M", "E">> /\ ~EndsWith(target, <<".">>)
    THEN target \o <<".">>
    ELSE target

----------------------------------------------------------------------------
\* The zone text codec.

\* Provider._get_resource_record_sets, after the GET: one tuple per line.
parse_records(blob) ==
    LET lines == SplitLines(blob)
    IN  [k \in 1..Len(lines) |-> ReSplit(lines[k], 2)]

\* Provider._update_resource_record_sets, before the PUT: record_txt.
record_txt_unspaced(resource_record_sets) ==
    Join(<<NL>>, [k \in 1..Len(resource_record_sets) |->
                    Join(<<>>, resource_record_sets[k])])

record_txt(resource_record_sets) ==
    Join(<<NL>>, [k \in 1..Len(resource_record_sets) |->
                    Join(<<SP>>, resource_record_sets[k])])

\* The PUT of Provider._update_resource_record_sets: the zone the vendor
\* holds afterwards.  Whatever it held before is replaced.
put_records_merged(remote, resource_record_sets) ==
    LET old == parse_records(remote)
        new == SelectSeq(resource_record_sets,
                         LAMBDA record : \A k \in 1..Len(old) : old[k] # record)
    IN  record_txt(old \o new)

put_records(remote, resource_record_sets) == record_txt(resource_record_sets)

----------------------------------------------------------------------------
\* The synthetic identifier.

sType == <<"t", "y", "p", "e", "=">>
sName == <<"n", "a", "m", "e", "=">>
sData == <<"d", "a", "t", "a", "=">>

\* hashlib.sha256 over the bytes fed to it, hexdigest()[0:7].  The digest is
\* not computed: it is taken to be injective on its input, so the input stands
\* for the digest (no collision, no effect of the cut to 7 characters).
sha256_hexdigest7(fed) == fed

\* Provider._identifier, for a record of three fields.
identifier_name_twice(record) ==
    sha256_hexdigest7(sType \o Lower(record[1]) \o sName \o record[2]
                        \o sData \o record[2])

identifier(record) ==
    sha256_hexdigest7(sType \o Lower(record[1]) \o sName \o record[2]
                        \o sData \o record[3])

----------------------------------------------------------------------------
\* Searching the parsed zone.

\* One turn of the loop of Provider._find_resource_record_set: "return" the
\* index, "continue" with the next record, or "raise" IndexError on a record
\* that lacks the field read.
find_step(record, ident, rtype, name, content) ==
    IF Truthy(ident) /\ Len(record) < 3 THEN "raise"
    ELSE IF Truthy(ident) /\ identifier(record) = ident THEN "return"
    ELSE IF Truthy(rtype) /\ Lower(record[1]) # Lower(rtype) THEN "continue"
    ELSE IF Truthy(name) /\ Len(record) < 2 THEN "raise"
    ELSE IF Truthy(name) /\ record[2] # name THEN "continue"
    ELSE IF Truthy(content) /\ Len(record) < 3 THEN "raise"
    ELSE IF Truthy(content) /\ record[3] # content THEN "continue"
    ELSE "return"

RECURSIVE find_from(_, _, _, _, _, _)
find_from(recs, k, ident, rtype, name, content) ==
    IF k > Len(recs) THEN [raised |-> FALSE, index |-> -1]
    ELSE LET step == find_step(recs[k], ident, rtype, name, content)
         IN  IF step = "raise" THEN [raised |-> TRUE, index |-> -1]
             ELSE IF step = "return" THEN [raised |-> FALSE, index |-> k - 1]
             ELSE find_from(recs, k + 1, ident, rtype, name, content)

\* Provider._find_resource_record_set
find_resource_record_set(recs, ident, rtype, name, content) ==
    find_from(recs, 1, ident, rtype, name, content)

----------------------------------------------------------------------------
\* The operations, as functions of the tuples fetched.  Each yields what the
\* call returns or raises (ret), the index its search found, whether it goes
\* on to write the zone back (store) and the tuples it then writes (newrecs).

Outcome(r, i, s, n, l) ==
    [ret |-> r, index |-> i, store |-> s, newrecs |-> n, listed |-> l]

\* Provider._create_record
create_record_always_appends(recs, rtype, name, content) ==
    LET rel == relative_name(name)
        record == <<Lower(rtype), rel, bind_format_target(rtype, content)>>
    IN  Outcome("True", -1, TRUE, Append(recs, record), <<>>)

create_record(recs, rtype, name, content) ==
    LET rel == relative_name(name)
        found == find_resource_record_set(recs, None, rtype, rel, content)
        record == <<Lower(rtype), rel, bind_format_target(rtype, content)>>
    IN  IF found.raised THEN Outcome("IndexError", -1, FALSE, recs, <<>>)
        ELSE IF found.index >= 0 THEN Outcome("True", found.index, FALSE, recs, <<>>)
        ELSE Outcome("True", found.index, TRUE, Append(recs, record), <<>>)

\* Provider._update_record, once its arguments have passed the check of line 100
update_record(recs, ident, rtype, name, content) ==
    LET rel == relative_name(name)
        found == find_resource_record_set(recs, ident, rtype, rel, None)
        record == <<Lower(rtype), rel, bind_format_target(rtype, content)>>
    IN  IF found.raised THEN Outcome("IndexError", -1, FALSE, recs, <<>>)
        ELSE IF found.index >= 0
        THEN Outcome("True", found.index, TRUE,
                     [recs EXCEPT ![found.index + 1] = record], <<>>)
        ELSE Outcome("True", found.index, TRUE, Append(recs, record), <<>>)

\* One turn of the filter loop of Provider._delete_record: "append" the record
\* to filtered_records, "continue", or "raise" IndexError.
delete_step(record, ident, rtype, name, content) ==
    IF Truthy(ident) /\ Len(record) < 3 THEN "raise"
    ELSE IF Truthy(ident) /\ identifier(record) # ident THEN "continue"
    ELSE IF Truthy(rtype) /\ Lower(record[1]) # Lower(rtype) THEN "continue"
    ELSE IF Truthy(name) /\ Len(record) < 2 THEN "raise"
    ELSE IF Truthy(name) /\ record[2] # name THEN "continue"
    ELSE IF Truthy(content) /\ Len(record) < 3 THEN "raise"
    ELSE IF Truthy(content) /\ record[3] # content THEN "continue"
    ELSE "append"

\* list.remove(x): the list without the first element equal to x.
RECURSIVE list_remove(_, _)
list_remove(list, x) ==
    IF list = <<>> THEN <<>>
    ELSE IF Head(list) = x THEN Tail(list)
    ELSE <<Head(list)>> \o list_remove(Tail(list), x)

\* for record in filtered_records: resource_record_sets.remove(record)
remove_each_only_first(list, filtered) ==
    IF filtered = <<>> THEN list ELSE list_remove(list, Head(filtered))

RECURSIVE remove_each(_, _)
remove_each(list, filtered) ==
    IF filtered = <<>> THEN list
    ELSE remove_each(list_remove(list, Head(filtered)), Tail(filtered))

\* Provider._delete_record
delete_record(recs, ident, rtype, name, content) ==
    LET rel == IF name # None THEN relative_name(name) ELSE None
        target == IF content # None THEN bind_format_target(rtype, content) ELSE None
        step(record) == delete_step(record, ident, rtype, rel, target)
        raised == \E k \in 1..Len(recs) : step(recs[k]) = "raise"
        filtered_records == SelectSeq(recs, LAMBDA record : step(record) = "append")
    IN  IF raised THEN Outcome("IndexError", -1, FALSE, recs, <<>>)
        ELSE IF filtered_records = <<>> THEN Outcome("False", -1, FALSE, recs, <<>>)
        ELSE Outcome("True", -1, TRUE, remove_each(recs, filtered_records), <<>>)

\* Provider._list_records
list_records(recs, rtype, name, content) ==
    LET full == IF Truthy(name) THEN full_name(name) ELSE None
        processed_record(record) ==
            [type |-> Upper(record[1]), name |-> full_name(record[2]), ttl |-> ttl,
             content |-> record[3], id |-> identifier(record)]
        kept(record) ==
            LET p == processed_record(record)
            IN  /\ ~(Truthy(rtype) /\ Lower(p.type) # Lower(rtype))
                /\ ~(Truthy(full) /\ p.name # full)
                /\ ~(Truthy(content) /\ p.content # content)
        wanted == SelectSeq(recs, kept)
    IN  IF \E k \in 1..Len(recs) : Len(recs[k]) < 3
        THEN Outcome("IndexError", -1, FALSE, recs, <<>>)
        ELSE Outcome("list", -1, FALSE, recs,
                     [k \in 1..Len(wanted) |-> processed_record(wanted[k])])

----------------------------------------------------------------------------
\* The arguments the operations are called with.

sA == <<"A">>
sCNAME == <<"C", "N", "A", "M", "E">>
scname == <<"c", "n", "a", "m", "e">>

\* rtype: a record type, as the caller spells it
Types == {sA, sCNAME, scname}
\* name: a host of the zone, and the zone's own name (its apex)
Names == {<<"w">>, domain}
\* content: a target without and with its trailing dot
Contents == {<<"t">>, <<"t", ".">>}

Opt(S) == S \cup {None}

\* identifier: none, one no record has, or the identifier of a record of the zone
Identifiers(recs) ==
    {None, <<"0">>} \cup {identifier(recs[k]) : k \in {j \in 1..Len(recs) : Len(recs[j]) = 3}}

\* The zones the vendor may hold at the start: empty, one record, two records
\* of one name, records of two types, three records, and a zone with a line of
\* two fields.
InitialZones ==
    { <<>>,
      <<"a", SP, "w", SP, "t">>,
      <<"a", SP, "w", SP, "t", NL, "a", SP, "w", SP, "t", ".">>,
      <<"c", "n", "a", "m", "e", SP, "@", SP, "t", ".", NL, "a", SP, "w", SP, "t">>,
      <<"a", SP, "w", SP, "t", NL, "c", "n", "a", "m", "e", SP, "@", SP, "t", ".", NL,
        "a", SP, "w", SP, "t", ".">>,
      <<"a", SP, "w", NL, "a", SP, "@", SP, "t">> }

----------------------------------------------------------------------------
\* One client.  The framework builds a provider, has it authenticate and then
\* calls one operation on it; the operation runs from its fetch to its return.

NoCall == [op |-> "none", identifier |-> None, rtype |-> None, name |-> None,
           content |-> None]

Call(op, ident, rtype, name, content) ==
    [op |-> op, identifier |-> ident, rtype |-> rtype, name |-> name,
     content |-> content]

\* The requests of an operation: the GET of _get_resource_record_sets, then
\* the PUT of _update_resource_record_sets when the operation reaches it.
requests_of(o) == IF o.store THEN <<"GET", "PUT">> ELSE <<"GET">>

\* Provider.__init__ and Provider._authenticate: a GET of the zone, from
\* which the provider keeps the ttl, the name servers and the domain's id.
Authenticate ==
    /\ call' = [NoCall EXCEPT !.op = "authenticate"]
    /\ fetched' = None
    /\ ret' = "None"
    /\ index' = -1
    /\ listed' = <<>>
    /\ requests' = <<"GET">>
    /\ stored' = NoStore
    /\ UNCHANGED <<records, pc, pending, log, arg, out>>

\* The provider has authenticated and no operation has been called on it yet.
Authenticated == call.op = "authenticate"

\* An operation that fetched the zone and ended as o.
Perform(c, recs, o) ==
    /\ Len(o.newrecs) > Len(recs) => Len(o.newrecs) <= MaxRecords
    /\ call' = c
    /\ fetched' = recs
    /\ ret' = o.ret
    /\ index' = o.index
    /\ listed' = o.listed
    /\ requests' = requests_of(o)
    /\ stored' = IF o.store THEN o.newrecs ELSE NoStore
    /\ records' = IF o.store THEN put_records(records, o.newrecs) ELSE records
    /\ UNCHANGED <<pc, pending, log, arg, out>>

\* The zone as _get_resource_record_sets returns it.  (Bound once, so that
\* the blob is parsed once per step.)
Fetched == {parse_records(records)}

ListRecords ==
    /\ Authenticated
    /\ \E rtype \in Opt(Types), name \in Opt(Names), content \in Opt(Contents) :
        \E recs \in Fetched :
            \E o \in {list_records(recs, rtype, name, content)} :
                Perform(Call("list", None, rtype, name, content), recs, o)

CreateRecord ==
    /\ Authenticated
    /\ \E rtype \in Types, name \in Names, content \in Contents :
        \E recs \in Fetched :
            \E o \in {create_record(recs, rtype, name, content)} :
                Perform(Call("create", None, rtype, name, content), recs, o)

UpdateRecord ==
    /\ Authenticated
    /\ \E rtype \in Types, name \in Names, content \in Contents :
        \E recs \in Fetched :
            \E ident \in Identifiers(recs) :
                \E o \in {update_record(recs, ident, rtype, name, content)} :
                    Perform(Call("update", ident, rtype, name, content), recs, o)

\* _update_record without rtype, name or content: line 101 raises before any
\* request is made.
UpdateRecordInvalid ==
    /\ Authenticated
    /\ \E rtype \in Opt(Types), name \in Opt(Names), content \in Opt(Contents) :
        /\ ~(Truthy(rtype) /\ Truthy(name) /\ Truthy(content))
        /\ call' = Call("update", None, rtype, name, content)
        /\ fetched' = None
        /\ ret' = "Exception"
        /\ index' = -1
        /\ listed' = <<>>
        /\ requests' = <<>>
        /\ stored' = NoStore
        /\ UNCHANGED <<records, pc, pending, log, arg, out>>

DeleteRecord ==
    /\ Authenticated
    /\ \E rtype \in Opt(Types), name \in Opt(Names), content \in Opt(Contents) :
        \E recs \in Fetched :
            \E ident \in Identifiers(recs) :
                \E o \in {delete_record(recs, ident, rtype, name, content)} :
                    Perform(Call("delete", ident, rtype, name, content), recs, o)

Init ==
    /\ records \in InitialZones
    /\ call = NoCall
    /\ fetched = None
    /\ stored = NoStore
    /\ ret = "none"
    /\ index = -1
    /\ requests = <<>>
    /\ listed = <<>>
    /\ pc = <<>>
    /\ pending = <<>>
    /\ log = <<>>
    /\ arg = <<>>
    /\ out = Idle

Next ==
    \/ Authenticate
    \/ ListRecords
    \/ CreateRecord
    \/ UpdateRecord
    \/ UpdateRecordInvalid
    \/ DeleteRecord

Spec == Init /\ [][Next]_vars

----------------------------------------------------------------------------
\* Properties of the operations (specification Spec).

Count(x, seq) == Cardinality({k \in 1..Len(seq) : seq[k] = x})

\* The last call was an operation that returned (it did not raise).
Completed == ret \in {"True", "False", "list"}

\* The triplet a create or update call is to write.
NewTriplet(c) ==
    <<Lower(c.rtype), relative_name(c.name), bind_format_target(c.rtype, c.content)>>

\* C1 - Idempotent create: once create_record(type, name, content) has
\* returned true, the same call made again on the zone it left (no other
\* writer in between) returns true and appends nothing, and the zone holds
\* exactly one triplet equal to the created one (lower-cased type, relative
\* name, stored content).  The second call is create_record applied to the
\* zone the first call left.
C1_IdempotentCreate ==
    (call.op = "create" /\ ret = "True") =>
        LET zone == parse_records(records)
            again == create_record(zone, call.rtype, call.name, call.content)
        IN  /\ again.ret = "True"
            /\ ~again.store
            /\ Count(NewTriplet(call), zone) = 1

\* C2 - Upsert by identifier: when the fetched zone holds a triplet whose
\* identifier is the one given (first at index i), update_record stores a zone
\* of the same length in which index i holds the new triplet and every other
\* index holds what it held before, whatever precedes index i.
C2_UpsertByIdentifier ==
    LET hits == {k \in 1..Len(fetched) :
                    Len(fetched[k]) = 3 /\ identifier(fetched[k]) = call.identifier}
    IN  (call.op = "update" /\ ret = "True" /\ Truthy(call.identifier) /\ hits # {}) =>
            LET i == CHOOSE k \in hits : \A j \in hits : k <= j
            IN  /\ Len(stored) = Len(fetched)
                /\ stored[i] = NewTriplet(call)
                /\ \A k \in 1..Len(fetched) : k # i => stored[k] = fetched[k]

\* C3 - CNAME canonicalization: a create_record or update_record call whose
\* type is CNAME in any letter case and whose content does not end with "."
\* writes a triplet of type "cname" whose content is the given content
\* followed by ".".
C3_CnameCanonical ==
    (/\ call.op \in {"create", "update"}
     /\ stored # NoStore
     /\ Lower(call.rtype) = scname
     /\ ~EndsWith(call.content, <<".">>)) =>
        LET written == IF index >= 0 THEN stored[index + 1] ELSE stored[Len(stored)]
        IN  /\ written[1] = scname
            /\ written[3] = call.content \o <<".">>

\* What delete_record compares a record with: the relative name and the
\* stored form of the content.
Matches(record, c) ==
    /\ Truthy(c.identifier) => (Len(record) = 3 /\ identifier(record) = c.identifier)
    /\ Truthy(c.rtype) => Lower(record[1]) = Lower(c.rtype)
    /\ c.name # None => (Len(record) >= 2 /\ record[2] = relative_name(c.name))
    /\ c.content # None =>
          (Len(record) >= 3 /\ record[3] = bind_format_target(c.rtype, c.content))

\* C4 - delete_record returns true if and only if a triplet was removed: with
\* no triplet of the fetched zone matching all the given fields it returns
\* false, makes no store and leaves the zone as it was; when it returns true
\* the stored zone is the fetched zone without exactly the matching triplets,
\* the others in their order.
C4_DeleteResult ==
    (call.op = "delete" /\ Completed) =>
        LET rest == SelectSeq(fetched, LAMBDA record : ~Matches(record, call))
        IN  /\ ret = "True" <=> (stored # NoStore /\ Len(stored) < Len(fetched))
            /\ rest = fetched =>
                  /\ ret = "False"
                  /\ stored = NoStore
                  /\ requests = <<"GET">>
                  /\ parse_records(records) = fetched
            /\ ret = "True" =>
                  /\ stored = rest
                  /\ parse_records(records) = rest

C4_Witness ==
    /\ call.op = "delete"
    /\ ret = "True"
    /\ Len(fetched) = Len(stored) + 2
    /\ stored # <<>>

\* C7 - Malformed zone line: on a fetched zone with a line of fewer than three
\* fields every operation ends in an error and stores nothing; no tuple of
\* fewer than three fields is written back.
C7_MalformedLineFails ==
    /\ (fetched # None /\ \E k \in 1..Len(fetched) : Len(fetched[k]) < 3) =>
          (ret = "IndexError" /\ stored = NoStore)
    /\ stored # NoStore => \A k \in 1..Len(stored) : Len(stored[k]) >= 3

----------------------------------------------------------------------------
\* Two clients, each making one _create_record call on the same zone.  A call
\* is two requests, the GET and (when it appends) the PUT; the other client's
\* requests may fall between them.

Clients == {1, 2}

NotFetched == [call |-> NoCall, recs |-> <<>>, newrecs |-> <<>>, ret |-> "none"]

InitConc ==
    /\ records \in InitialZones
    /\ pc = [c \in Clients |-> "idle"]
    /\ pending = [c \in Clients |-> NotFetched]
    /\ log = <<>>
    /\ call = NoCall
    /\ fetched = None
    /\ stored = NoStore
    /\ ret = "none"
    /\ index = -1
    /\ requests = <<>>
    /\ listed = <<>>
    /\ arg = <<>>
    /\ out = Idle

\* Lines 47-56 of _create_record: the GET, the search, and the return when the
\* record is there already (or the search raised).
Fetch(c) ==
    /\ pc[c] = "idle"
    /\ \E rtype \in Types, name \in Names, content \in Contents :
        \E recs \in Fetched :
            \E o \in {create_record(recs, rtype, name, content)} :
                /\ Len(o.newrecs) > Len(recs) => Len(o.newrecs) <= MaxRecords
                /\ pc' = [pc EXCEPT ![c] = IF o.store THEN "fetched" ELSE "done"]
                /\ pending' = [pending EXCEPT ![c] =
                        [call |-> Call("create", None, rtype, name, content),
                         recs |-> recs, newrecs |-> o.newrecs,
                         ret |-> IF o.store THEN "none" ELSE o.ret]]
                /\ log' = Append(log, <<"GET", c>>)
    /\ UNCHANGED <<records, call, fetched, stored, ret, index, requests, listed,
                   arg, out>>

\* Lines 57-59 of _create_record: the PUT of the tuples fetched earlier with
\* the new one appended, and the return.
Store(c) ==
    /\ pc[c] = "fetched"
    /\ records' = put_records(records, pending[c].newrecs)
    /\ pc' = [pc EXCEPT ![c] = "done"]
    /\ pending' = [pending EXCEPT ![c].ret = "True"]
    /\ log' = Append(log, <<"PUT", c>>)
    /\ UNCHANGED <<call, fetched, stored, ret, index, requests, listed, arg, out>>

NextConc == \E c \in Clients : Fetch(c) \/ Store(c)

SpecConc == InitConc /\ [][NextConc]_vars

\* The place of a request in the log, 0 when it was not made.
At(method, c) ==
    IF \E i \in 1..Len(log) : log[i] = <<method, c>>
    THEN CHOOSE i \in 1..Len(log) : log[i] = <<method, c>>
    ELSE 0

\* Client d wrote last, from a zone it had fetched before client e wrote.
Overwrote(d, e) ==
    /\ d # e
    /\ At("PUT", e) > 0
    /\ At("GET", d) < At("PUT", e)
    /\ At("PUT", e) < At("PUT", d)

\* C10 - Lost update: when a client stores a zone it fetched before the other
\* client's store, both calls have returned true and the zone holds no more
\* copies of the other client's (different) record than before that client's
\* call: the later store has overwritten the earlier one.
C10_LostUpdate ==
    \A d, e \in Clients :
        (Overwrote(d, e) /\ NewTriplet(pending[d].call) # NewTriplet(pending[e].call)) =>
            /\ pending[d].ret = "True"
            /\ pending[e].ret = "True"
            /\ parse_records(records) = pending[d].newrecs
            /\ Count(NewTriplet(pending[e].call), parse_records(records))
                 = Count(NewTriplet(pending[e].call), pending[e].recs)

C10_Witness ==
    \E d, e \in Clients :
        /\ Overwrote(d, e)
        /\ NewTriplet(pending[d].call) # NewTriplet(pending[e].call)
        /\ pending[d].ret = "True"
        /\ pending[e].ret = "True"
        /\ Count(NewTriplet(pending[e].call), pending[e].newrecs) = 1
        /\ Count(NewTriplet(pending[e].call), parse_records(records)) = 0
        /\ Count(NewTriplet(pending[d].call), parse_records(records)) = 1

----------------------------------------------------------------------------
\* The pure functions, each applied once to an input drawn at the start.

\* All strings over the characters S of length 0..n.
Strings(S, n) == UNION {[1..k -> S] : k \in 0..n}

InitPure(inputs) ==
    /\ arg \in inputs
    /\ out = <<>>
    /\ ret = "none"
    /\ records = <<>>
    /\ call = NoCall
    /\ fetched = None
    /\ stored = NoStore
    /\ index = -1
    /\ requests = <<>>
    /\ listed = <<>>
    /\ pc = <<>>
    /\ pending = <<>>
    /\ log = <<>>

Return(value) ==
    /\ ret = "none"
    /\ ret' = "returned"
    /\ out' = value
    /\ UNCHANGED <<arg, records, call, fetched, stored, index, requests, listed,
                   pc, pending, log>>

\* --- The codec: what is written is read back.

\* The fields a well-formed triplet is made of: type and name are non-empty
\* and hold no whitespace; content is non-empty, holds no line break and does
\* not start with whitespace.
WellFormedWord(s) == s # <<>> /\ \A i \in 1..Len(s) : s[i] \notin Whitespace
WellFormedContent(s) ==
    /\ s # <<>>
    /\ s[1] \notin Whitespace
    /\ \A i \in 1..Len(s) : s[i] \notin LineBreaks
WellFormedTriplet(t) ==
    WellFormedWord(t[1]) /\ WellFormedWord(t[2]) /\ WellFormedContent(t[3])

CodecTriplets ==
    {t \in {<<"a">>} \X {<<"w">>, <<SP>>} \X Strings({"x", SP, TAB, NL}, MaxContentLen) :
        WellFormedTriplet(t)}

CodecInputs == UNION {[1..k -> CodecTriplets] : k \in 0..MaxTriplets}

InitCodec == InitPure(CodecInputs)

\* _update_resource_record_sets builds the text, the vendor keeps it,
\* _get_resource_record_sets parses it.
RoundTrip == Return(parse_records(record_txt(arg)))

SpecCodec == InitCodec /\ [][RoundTrip]_vars

\* C6 - Codec round-trip: parsing the text serialized from a well-formed
\* triplet sequence yields the same sequence, element for element, in order.
C6_RoundTrip == ret = "returned" => out = arg

C6_Witness ==
    /\ ret = "returned"
    /\ Len(arg) = 2
    /\ \E k \in 1..Len(arg) : Contains(arg[k][3], <<SP, "x">>)
    /\ out = arg

\* --- The identifier of two triplets.

IdTypes == {<<"a">>, <<"A">>, <<"a", "n", "a", "m", "e", "=", "b">>}
IdNames == {<<"b">>, <<"c">>, <<"b", "n", "a", "m", "e", "=", "c">>,
            <<"b", "d", "a", "t", "a", "=", "c">>}
IdContents == {<<"d">>, <<"c", "d", "a", "t", "a", "=", "d">>}
IdTriplets == IdTypes \X IdNames \X IdContents

InitIdent == InitPure(IdTriplets \X IdTriplets)

Identify == Return(<<identifier(arg[1]), identifier(arg[2])>>)

SpecIdent == InitIdent /\ [][Identify]_vars

\* C5 - Identifier distinctness: with an injective hash, two triplets that
\* differ in type, name or content have different identifiers.
C5_Distinct == (ret = "returned" /\ arg[1] # arg[2]) => out[1] # out[2]

\* The literal prefixes cannot be mistaken for part of a field.
Unambiguous(t) == ~Contains(Lower(t[1]), sName) /\ ~Contains(t[2], sData)

\* C5 as amended: with an injective hash, two triplets that differ in
\* lower-cased type, name or content have different identifiers, provided no
\* type contains "name=" and no name contains "data="; triplets that differ
\* only in the letter case of type have the same identifier.
C5_DistinctAmended ==
    ret = "returned" =>
        LET t1 == arg[1]
            t2 == arg[2]
            same == Lower(t1[1]) = Lower(t2[1]) /\ t1[2] = t2[2] /\ t1[3] = t2[3]
        IN  /\ same => out[1] = out[2]
            /\ (~same /\ Unambiguous(t1) /\ Unambiguous(t2)) => out[1] # out[2]

C5_Witness ==
    /\ ret = "returned"
    /\ Unambiguous(arg[1]) /\ Unambiguous(arg[2])
    /\ arg[1][1] = arg[2][1]
    /\ arg[1][2] = arg[2][2]
    /\ arg[1][3] # arg[2][3]
    /\ out[1] # out[2]

\* --- The search by identifier alone.

FindTriplets == {<<"a">>, scname} \X {<<"w">>, <<"@">>} \X Contents

FindInputs ==
    [recs : UNION {[1..k -> FindTriplets] : k \in 1..MaxRecords},
     identifier : {<<"0">>} \cup {identifier(t) : t \in FindTriplets}]

InitFind == InitPure(FindInputs)

Find ==
    Return(find_resource_record_set(arg.recs, arg.identifier, None, None, None).index)

SpecFind == InitFind /\ [][Find]_vars

\* C8 - No fallback: on a non-empty triplet sequence, the search for an
\* identifier that no triplet has, with type, name and content absent,
\* returns -1.
C8_NoFallback ==
    (/\ ret = "returned"
     /\ arg.recs # <<>>
     /\ \A k \in 1..Len(arg.recs) : identifier(arg.recs[k]) # arg.identifier) =>
        out = -1

====
